---- MODULE Spec2Model ----
(***************************************************************************)
(* NullNova web site: the certificate workflow of the two verify pages.    *)
(*                                                                         *)
(*   remote mode  src/unnamed/part_002  (file -> FileReader -> fetch POST) *)
(*   local mode   src/src/components/verifypage.js  (JSON.parse -> cert)   *)
(*                                                                         *)
(* Each page is a React component: its useState cells are the variables,   *)
(* its event handlers and asynchronous callbacks are the actions.  The     *)
(* browser runs them one at a time on the single UI thread, so each        *)
(* handler or callback is one atomic action.                               *)
(***************************************************************************)
EXTENDS Integers, Sequences, FiniteSets, Bags, TLC

(***************************************************************************)
(* Bounds of the model.                                                    *)
(***************************************************************************)
\* longest text typed in the textarea
MaxLen == 2
\* number of clicks on "Generate PDF" made with a file selected
MaxClicks == 2
\* latest reading of the wall clock, in half seconds
MaxClock == 2
\* file reads of the local page in progress at once
MaxReads == 1
\* the tools of each category that are modelled (the first ones of its list)
MaxTools == 1

VARIABLES
    \* ---- remote mode (part_002) ----
    selectedFile,   \* useState(null): the chosen File, or NoFile
    status,         \* useState(''): the status message
    downloadUrl,    \* useState(''): the download link's target
    reads,          \* FileReader reads started by handleSubmit, not yet settled
    requests,       \* fetch calls issued by sendToApi, not yet settled
    clicks,         \* history: clicks on Generate made with a file selected
    nRequests,      \* history: fetch calls issued so far
    nReadErrors,    \* history: file reads that ended in an error
    statusBy,       \* history: the request whose sendToApi or settlement wrote status (0: none)
    urlBy,          \* history: the request whose response wrote downloadUrl (0: none)
    shownFailures,  \* history: <<kind of error, message displayed for it>> so far
    \* ---- local mode (verifypage.js) ----
    jsonInput,      \* useState(""): the textarea / loaded file text
    certificate,    \* useState(null): the certificate envelope, or NoCert
    inputMode,      \* useState("text")
    isDragging,     \* useState(false)
    fileReads,      \* FileReader reads started by handleFileUpload, not yet settled
    certInput,      \* history: the input text the stored certificate was made from
    \* ---- landing page with verify buttons (part_003) ----
    activeTab,          \* useState("desktop")
    heroVerified,       \* useState(false)
    verifyingHero,      \* useState(false)
    toolVerification,   \* useState({}): per tool undefined, "verifying" or true
    heroTimers,         \* setTimeout callbacks of handleHeroVerify still pending
    toolTimers,         \* per tool, setTimeout callbacks of handleToolVerify pending
    heroTimersStarted,  \* history: setTimeout calls of handleHeroVerify so far
    toolTimersStarted,  \* history: per tool, setTimeout calls of handleToolVerify
    \* ---- landing pages with and without the download modal (part_001) ----
    activeTabBasic,     \* useState("desktop") of the page without modal
    activeTabModal,     \* useState("desktop") of the page with the modal
    showModal,          \* useState(false)
    modalView,          \* useState("choice")
    lastClick,          \* history: the latest landing-page handler that ran
    \* ---- both ----
    alerted,        \* the alert() messages raised by the latest handler
    lastEvent       \* history: the latest handler or callback that ran

remoteVars == <<selectedFile, status, downloadUrl, reads, requests, clicks,
                nRequests, nReadErrors, statusBy, urlBy, shownFailures>>
localVars == <<jsonInput, certificate, inputMode, isDragging, fileReads,
               certInput>>
landingVars == <<activeTab, heroVerified, verifyingHero, toolVerification,
                 heroTimers, toolTimers, heroTimersStarted, toolTimersStarted,
                 activeTabBasic, activeTabModal, showModal, modalView,
                 lastClick>>
verifyVars == <<remoteVars, localVars, alerted, lastEvent>>
vars == <<remoteVars, localVars, landingVars, alerted, lastEvent>>

(***************************************************************************)
(* Texts.  A text is a sequence of characters.  The texts typed are over   *)
(* an alphabet that writes JSON numbers and arrays, with and without white *)
(* space; the files also hold arrays of several elements.                  *)
(***************************************************************************)
Chars == {"[", "]", "1", " "}

TextsOfLen(n) == [1..n -> Chars]

Texts == UNION {TextsOfLen(n) : n \in 0..MaxLen}

(***************************************************************************)
(* JSON.parse, for the JSON values the alphabet can write:                 *)
(*   value  ::= ws (number | array) ws                                     *)
(*   number ::= "1"+                                                       *)
(*   array  ::= "[" ws "]"  |  "[" value ("," value)* "]"                  *)
(* A parsed value is [t, n, items]: a number n, or an array of items.      *)
(***************************************************************************)
JsonNumber(k) == [t |-> "num", n |-> k, items |-> <<>>]

JsonArray(xs) == [t |-> "arr", n |-> 0, items |-> xs]

ParseFail == [ok |-> FALSE, val |-> JsonNumber(0), next |-> 0]

RECURSIVE SkipWs(_, _)
SkipWs(s, i) ==
    IF i <= Len(s) /\ s[i] = " " THEN SkipWs(s, i + 1) ELSE i

\* the digits s[i..]: [val, next]
RECURSIVE ParseDigits(_, _, _)
ParseDigits(s, i, acc) ==
    IF i <= Len(s) /\ s[i] = "1"
    THEN ParseDigits(s, i + 1, acc * 10 + 1)
    ELSE [ok |-> TRUE, val |-> JsonNumber(acc), next |-> i]

RECURSIVE ParseValue(_, _)
RECURSIVE ParseElements(_, _, _)
\* a value starting at s[i], leading white space skipped; next is the index
\* after the value and its trailing white space
ParseValue(s, i) ==
    LET j == SkipWs(s, i) IN
    IF j > Len(s) THEN ParseFail
    ELSE IF s[j] = "1" THEN
        LET r == ParseDigits(s, j, 0) IN
        [ok |-> TRUE, val |-> r.val, next |-> SkipWs(s, r.next)]
    ELSE IF s[j] = "[" THEN
        LET k == SkipWs(s, j + 1) IN
        IF k <= Len(s) /\ s[k] = "]"
        THEN [ok |-> TRUE, val |-> JsonArray(<<>>), next |-> SkipWs(s, k + 1)]
        ELSE ParseElements(s, j + 1, <<>>)
    ELSE ParseFail

\* the elements of a non-empty array, s[i] being the start of the next one
ParseElements(s, i, acc) ==
    LET r == ParseValue(s, i) IN
    IF ~r.ok \/ r.next > Len(s) THEN ParseFail
    ELSE IF s[r.next] = ","
        THEN ParseElements(s, r.next + 1, Append(acc, r.val))
    ELSE IF s[r.next] = "]"
        THEN [ok |-> TRUE, val |-> JsonArray(Append(acc, r.val)),
              next |-> SkipWs(s, r.next + 1)]
    ELSE ParseFail

\* JSON.parse(s): ok = FALSE models the SyntaxError it throws
JSONParse(s) ==
    LET r == ParseValue(s, 1) IN
    IF r.ok /\ r.next > Len(s)
    THEN [ok |-> TRUE, val |-> r.val]
    ELSE [ok |-> FALSE, val |-> JsonNumber(0)]

(***************************************************************************)
(* Files the user can pick or drop: a name, the declared content type and  *)
(* the text readAsText delivers.                                           *)
(***************************************************************************)
Files ==
    { [name |-> "wipe.json",  type |-> "application/json", text |-> <<"[", "1", ",", " ", "1", "]">>],
      [name |-> "bad.json",   type |-> "application/json", text |-> <<"[", "1">>],
      [name |-> "notes.txt",  type |-> "text/plain",       text |-> <<"1">>] }

\* null / undefined: no file chosen
NoFile == [name |-> "", type |-> "", text |-> <<>>]

(***************************************************************************)
(*                      REMOTE MODE  (part_002)                            *)
(***************************************************************************)
MsgSelectFile == "Please select a JSON file to upload."

MsgGenerating == "Generating certificate, please wait..."

MsgSuccess == "Certificate generated successfully!"

MsgError == "An error occurred. Please try again."

\* WorkflowStatus of the specification, read off the status message
WorkflowStatus ==
    CASE status = "" -> "idle"
      [] status = MsgSelectFile -> "idle"
      [] status = MsgGenerating -> "submitting"
      [] status = MsgSuccess -> "succeeded"
      [] status = MsgError -> "failed"

\* what the endpoint can answer
StatusCodes == {200, 404, 500}

Urls == {"", "https://example/x.pdf", "https://example/y.pdf"}

NoBody == [kind |-> "none", hasUrl |-> FALSE, url |-> ""]

\* a body that is not JSON, the JSON value null, a JSON object without the
\* download_url field, and JSON objects with it
Bodies ==
    { [kind |-> "notjson", hasUrl |-> FALSE, url |-> ""],
      [kind |-> "null",    hasUrl |-> FALSE, url |-> ""],
      [kind |-> "object",  hasUrl |-> FALSE, url |-> ""] }
    \cup { [kind |-> "object", hasUrl |-> TRUE, url |-> u] : u \in Urls }

\* the Error objects that reach .catch and console.error
NoError == [kind |-> "none", code |-> 0]

ServerError(code) == [kind |-> "Server error", code |-> code]

InvalidResponse == [kind |-> "Invalid response from server.", code |-> 0]

NetworkError == [kind |-> "TypeError: Failed to fetch", code |-> 0]

BodySyntaxError == [kind |-> "SyntaxError", code |-> 0]

\* data.download_url with data = null
NullDataError == [kind |-> "TypeError: Cannot read properties of null", code |-> 0]

Event(op, id, err, body, file) ==
    [op |-> op, id |-> id, err |-> err, body |-> body, file |-> file]

\* response.ok
ResponseOk(code) == code >= 200 /\ code <= 299

\* mutant: the link is taken from a fixed place, not from the response
DownloadUrlFixed(body) ==
    IF body.hasUrl /\ body.url # "" THEN "https://example/x.pdf" ELSE ""

\* data.download_url, undefined ("" here, both falsy) when the field is absent
DownloadUrlOf(body) == IF body.hasUrl THEN body.url ELSE ""

\* mutant: the presence test always passes
TruthyAlways(u) == TRUE

\* the test  if (data.download_url)
Truthy(u) == u # ""

\* a file change that keeps the status and the link
handleFileChangeKeeping(f) ==
    /\ UNCHANGED <<localVars, landingVars, shownFailures>>
    /\ selectedFile' = f
    /\ alerted' = <<>>
    /\ lastEvent' = Event("handleFileChange", 0, NoError, NoBody, f)
    /\ UNCHANGED <<status, downloadUrl, statusBy, urlBy, reads, requests,
                   clicks, nRequests, nReadErrors>>

\* handleFileChange: event.target.files[0] is undefined when the choice is emptied
handleFileChange(f) ==
    /\ UNCHANGED <<localVars, landingVars, shownFailures>>
    /\ selectedFile' = f
    /\ status' = ""
    /\ downloadUrl' = ""
    /\ statusBy' = 0
    /\ urlBy' = 0
    /\ alerted' = <<>>
    /\ lastEvent' = Event("handleFileChange", 0, NoError, NoBody, f)
    /\ UNCHANGED <<reads, requests, clicks, nRequests, nReadErrors>>

\* a click without file that also clears the link
handleSubmitNoFileClearing ==
    /\ UNCHANGED <<localVars, landingVars, shownFailures>>
    /\ selectedFile = NoFile
    /\ status' = MsgSelectFile
    /\ downloadUrl' = ""
    /\ statusBy' = 0
    /\ urlBy' = 0
    /\ alerted' = <<>>
    /\ lastEvent' = Event("handleSubmit", 0, NoError, NoBody, NoFile)
    /\ UNCHANGED <<selectedFile, reads, requests, clicks, nRequests,
                   nReadErrors>>

\* handleSubmit without a file
handleSubmitNoFile ==
    /\ UNCHANGED <<localVars, landingVars, shownFailures>>
    /\ selectedFile = NoFile
    /\ status' = MsgSelectFile
    /\ statusBy' = 0
    /\ alerted' = <<>>
    /\ lastEvent' = Event("handleSubmit", 0, NoError, NoBody, NoFile)
    /\ UNCHANGED <<selectedFile, downloadUrl, reads, requests, clicks,
                   nRequests, nReadErrors, urlBy>>

\* mutant: one click starts the read twice
StartReadTwice(id, f) ==
    reads \cup {[id |-> id, file |-> f], [id |-> id + MaxClicks, file |-> f]}

\* the FileReader handleSubmit starts: reader.readAsText(selectedFile)
StartRead(id, f) == reads \cup {[id |-> id, file |-> f]}

\* handleSubmit with a file: only starts the read
handleSubmitFile ==
    /\ UNCHANGED <<localVars, landingVars, shownFailures>>
    /\ selectedFile # NoFile
    /\ clicks < MaxClicks
    /\ clicks' = clicks + 1
    /\ reads' = StartRead(clicks + 1, selectedFile)
    /\ alerted' = <<>>
    /\ lastEvent' = Event("handleSubmit", clicks + 1, NoError, NoBody, selectedFile)
    /\ UNCHANGED <<selectedFile, status, downloadUrl, requests, nRequests,
                   nReadErrors, statusBy, urlBy>>

handleSubmit == handleSubmitNoFile \/ handleSubmitFile

\* the fetch sendToApi issues: one POST whose body is the text read
Fetch(id, click, jsonData) ==
    requests \cup {[id |-> id, click |-> click, body |-> jsonData, stage |-> "sent"]}

\* sendToApi(jsonData), up to the return of fetch(...)
sendToApi(click, jsonData) ==
    /\ status' = MsgGenerating
    /\ downloadUrl' = ""
    /\ requests' = Fetch(nRequests + 1, click, jsonData)
    /\ nRequests' = nRequests + 1
    /\ statusBy' = nRequests + 1
    /\ urlBy' = 0

\* a read that posts the text of the file selected when it completes
readerOnloadCurrent(r) ==
    /\ UNCHANGED <<localVars, landingVars, shownFailures>>
    /\ r \in reads
    /\ reads' = reads \ {r}
    /\ sendToApi(r.id, selectedFile.text)
    /\ alerted' = <<>>
    /\ lastEvent' = Event("reader.onload", nRequests + 1, NoError, NoBody, r.file)
    /\ UNCHANGED <<selectedFile, clicks, nReadErrors>>

\* reader.onload: the read of handleSubmit completes
readerOnload(r) ==
    /\ UNCHANGED <<localVars, landingVars, shownFailures>>
    /\ r \in reads
    /\ reads' = reads \ {r}
    /\ sendToApi(r.id, r.file.text)
    /\ alerted' = <<>>
    /\ lastEvent' = Event("reader.onload", nRequests + 1, NoError, NoBody, r.file)
    /\ UNCHANGED <<selectedFile, clicks, nReadErrors>>

\* a reader with an onerror handler that reports the failed read
readerErrorReporting(r) ==
    /\ UNCHANGED <<localVars, landingVars, shownFailures>>
    /\ r \in reads
    /\ reads' = reads \ {r}
    /\ nReadErrors' = nReadErrors + 1
    /\ status' = MsgError
    /\ statusBy' = r.id
    /\ alerted' = <<>>
    /\ lastEvent' = Event("reader.onerror", r.id, NoError, NoBody, r.file)
    /\ UNCHANGED <<selectedFile, downloadUrl, requests, clicks, nRequests,
                   urlBy>>

\* the read fails (file removed or unreadable): no onerror handler is set
readerError(r) ==
    /\ UNCHANGED <<localVars, landingVars, shownFailures>>
    /\ r \in reads
    /\ reads' = reads \ {r}
    /\ nReadErrors' = nReadErrors + 1
    /\ alerted' = <<>>
    /\ lastEvent' = Event("reader.onerror", r.id, NoError, NoBody, r.file)
    /\ UNCHANGED <<selectedFile, status, downloadUrl, requests, clicks,
                   nRequests, statusBy, urlBy>>

\* the error taxonomy: a response that is not ok, a body that is JSON without
\* the link, a request that never completed; the other errors are the body's
ErrorKind(error) ==
    CASE error.kind = "Server error" -> "ServerError"
      [] error.kind = "Invalid response from server." -> "InvalidServerResponse"
      [] error.kind = "TypeError: Failed to fetch" -> "NetworkError"
      [] OTHER -> "InvalidServerResponse"

\* .catch(error => ...): console.error, then the one error message
catch(q, error, op, body) ==
    /\ status' = MsgError
    /\ statusBy' = q.id
    /\ alerted' = <<>>
    /\ lastEvent' = Event(op, q.id, error, body, NoFile)
    /\ shownFailures' = shownFailures \cup {<<ErrorKind(error), MsgError>>}
    /\ UNCHANGED <<downloadUrl, urlBy>>

\* fetch rejects: the request failed at the network level
fetchRejected(q) ==
    /\ UNCHANGED <<localVars, landingVars>>
    /\ q \in requests /\ q.stage = "sent"
    /\ requests' = requests \ {q}
    /\ catch(q, NetworkError, "fetch.rejected", NoBody)
    /\ UNCHANGED <<selectedFile, reads, clicks, nRequests, nReadErrors>>

\* .then(response => ...): the response's status line and headers arrived
thenResponse(q, code) ==
    /\ UNCHANGED <<localVars, landingVars>>
    /\ q \in requests /\ q.stage = "sent"
    /\ IF ResponseOk(code)
       THEN /\ requests' = (requests \ {q}) \cup {[q EXCEPT !.stage = "json"]}
            /\ alerted' = <<>>
            /\ lastEvent' = Event("response.ok", q.id, NoError, NoBody, NoFile)
            /\ UNCHANGED <<status, downloadUrl, statusBy, urlBy, shownFailures>>
       ELSE /\ requests' = requests \ {q}
            /\ catch(q, ServerError(code), "response.notOk", NoBody)
    /\ UNCHANGED <<selectedFile, reads, clicks, nRequests, nReadErrors>>

\* .then(data => ...): response.json() settled on the body that arrived
thenData(q, body) ==
    /\ UNCHANGED <<localVars, landingVars>>
    /\ q \in requests /\ q.stage = "json"
    /\ requests' = requests \ {q}
    /\ IF body.kind = "notjson"
       THEN catch(q, BodySyntaxError, "response.json", body)
       ELSE IF body.kind = "null"
       THEN catch(q, NullDataError, "response.json", body)
       ELSE IF Truthy(DownloadUrlOf(body))
       THEN /\ status' = MsgSuccess
            /\ downloadUrl' = DownloadUrlOf(body)
            /\ statusBy' = q.id
            /\ urlBy' = q.id
            /\ alerted' = <<>>
            /\ lastEvent' = Event("response.json", q.id, NoError, body, NoFile)
            /\ UNCHANGED shownFailures
       ELSE catch(q, InvalidResponse, "response.json", body)
    /\ UNCHANGED <<selectedFile, reads, clicks, nRequests, nReadErrors>>

\* the download link of the render:  {downloadUrl && <a href={downloadUrl}>}
DownloadLinkShown == downloadUrl # ""

InitRemote ==
    /\ selectedFile = NoFile
    /\ status = ""
    /\ downloadUrl = ""
    /\ reads = {}
    /\ requests = {}
    /\ clicks = 0
    /\ nRequests = 0
    /\ nReadErrors = 0
    /\ statusBy = 0
    /\ urlBy = 0
    /\ shownFailures = {}

NextRemote ==
    \/ \E f \in Files \cup {NoFile} : handleFileChange(f)
    \/ handleSubmit
    \/ \E r \in reads : readerOnload(r)
    \/ \E r \in reads : readerError(r)
    \/ \E q \in requests : fetchRejected(q)
    \/ \E q \in requests, code \in StatusCodes : thenResponse(q, code)
    \/ \E q \in requests, body \in Bodies : thenData(q, body)

(***************************************************************************)
(*                  LOCAL MODE  (components/verifypage.js)                 *)
(***************************************************************************)
MsgInvalidFile == "Please upload a valid JSON file."

MsgInvalidJson == "Invalid JSON. Please check your input."

CertTitle == "NullNova Data Wiping Certificate"

\* useState(null)
NoCert == [title |-> "", timestamp |-> 0, details |-> JsonNumber(0)]

\* new Date().toLocaleString(): the clock reading to the second
ToLocaleString(t) == t \div 2

\* mutant: the clock reading leaks into the details
MakeCertStamped(parsed, t) ==
    [title |-> CertTitle, timestamp |-> ToLocaleString(t),
     details |-> JsonArray(<<parsed, JsonNumber(t)>>)]

\* mutant: the title is left out
MakeCertUntitled(parsed, t) ==
    [title |-> "", timestamp |-> ToLocaleString(t), details |-> parsed]

\* mutant: the new details are merged into those of the stored certificate
MakeCertMerging(parsed, t) ==
    [title |-> CertTitle, timestamp |-> ToLocaleString(t),
     details |-> IF certificate = NoCert THEN parsed
                 ELSE JsonArray(<<certificate.details, parsed>>)]

\* const cert = { title, timestamp, details }
MakeCert(parsed, t) ==
    [title |-> CertTitle, timestamp |-> ToLocaleString(t), details |-> parsed]

\* mutant: the declared type is not looked at
AcceptsAnyFile(file) == file # NoFile

\* file && file.type === "application/json"
AcceptsFile(file) == file # NoFile /\ file.type = "application/json"

\* handleFileUpload(file), as a function of the state and the file
handleFileUpload(file) ==
    IF AcceptsFile(file)
    THEN /\ BagCardinality(fileReads) < MaxReads
         /\ fileReads' = fileReads (+) SetToBag({file})
         /\ alerted' = <<>>
    ELSE /\ alerted' = <<MsgInvalidFile>>
         /\ UNCHANGED fileReads

\* <input type="file" onChange>: calls handleFileUpload when a file was chosen
fileInputOnChange(f) ==
    /\ UNCHANGED <<remoteVars, landingVars>>
    /\ inputMode = "file"
    /\ IF f # NoFile
       THEN handleFileUpload(f)
       ELSE alerted' = <<>> /\ UNCHANGED fileReads
    /\ lastEvent' = Event("fileInput.onChange", 0, NoError, NoBody, f)
    /\ UNCHANGED <<jsonInput, certificate, inputMode, isDragging, certInput>>

\* mutant: the text read loses its last character
uploadOnloadCutting(f) ==
    /\ UNCHANGED <<remoteVars, landingVars>>
    /\ BagIn(f, fileReads)
    /\ fileReads' = fileReads (-) SetToBag({f})
    /\ jsonInput' = SubSeq(f.text, 1, Len(f.text) - 1)
    /\ alerted' = <<>>
    /\ lastEvent' = Event("upload.onload", 0, NoError, NoBody, f)
    /\ UNCHANGED <<certificate, inputMode, isDragging, certInput>>

\* reader.onload of handleFileUpload
uploadOnload(f) ==
    /\ UNCHANGED <<remoteVars, landingVars>>
    /\ BagIn(f, fileReads)
    /\ fileReads' = fileReads (-) SetToBag({f})
    /\ jsonInput' = f.text
    /\ alerted' = <<>>
    /\ lastEvent' = Event("upload.onload", 0, NoError, NoBody, f)
    /\ UNCHANGED <<certificate, inputMode, isDragging, certInput>>

\* the read of handleFileUpload fails: no onerror handler is set
uploadError(f) ==
    /\ UNCHANGED <<remoteVars, landingVars>>
    /\ BagIn(f, fileReads)
    /\ fileReads' = fileReads (-) SetToBag({f})
    /\ alerted' = <<>>
    /\ lastEvent' = Event("upload.onerror", 0, NoError, NoBody, f)
    /\ UNCHANGED <<jsonInput, certificate, inputMode, isDragging, certInput>>

handleDragOver ==
    /\ UNCHANGED <<remoteVars, landingVars>>
    /\ inputMode = "file"
    /\ isDragging' = TRUE
    /\ alerted' = <<>>
    /\ lastEvent' = Event("handleDragOver", 0, NoError, NoBody, NoFile)
    /\ UNCHANGED <<jsonInput, certificate, inputMode, fileReads, certInput>>

handleDragLeave ==
    /\ UNCHANGED <<remoteVars, landingVars>>
    /\ inputMode = "file"
    /\ isDragging' = FALSE
    /\ alerted' = <<>>
    /\ lastEvent' = Event("handleDragLeave", 0, NoError, NoBody, NoFile)
    /\ UNCHANGED <<jsonInput, certificate, inputMode, fileReads, certInput>>

\* mutant: the last dropped file is uploaded, not the first
handleDropLast(files) ==
    /\ UNCHANGED <<remoteVars, landingVars>>
    /\ inputMode = "file"
    /\ isDragging' = FALSE
    /\ IF Len(files) > 0
       THEN handleFileUpload(files[Len(files)])
       ELSE alerted' = <<>> /\ UNCHANGED fileReads
    /\ lastEvent' = Event("handleDrop", Len(files), NoError, NoBody,
                          IF Len(files) > 0 THEN files[1] ELSE NoFile)
    /\ UNCHANGED <<jsonInput, certificate, inputMode, certInput>>

\* handleDrop: files = e.dataTransfer.files
handleDrop(files) ==
    /\ UNCHANGED <<remoteVars, landingVars>>
    /\ inputMode = "file"
    /\ isDragging' = FALSE
    /\ IF Len(files) > 0
       THEN handleFileUpload(files[1])
       ELSE alerted' = <<>> /\ UNCHANGED fileReads
    /\ lastEvent' = Event("handleDrop", Len(files), NoError, NoBody,
                          IF Len(files) > 0 THEN files[1] ELSE NoFile)
    /\ UNCHANGED <<jsonInput, certificate, inputMode, certInput>>

\* the two mode tabs
setInputMode(m) ==
    /\ UNCHANGED <<remoteVars, landingVars>>
    /\ inputMode' = m
    /\ alerted' = <<>>
    /\ lastEvent' = Event("setInputMode", 0, NoError, NoBody, NoFile)
    /\ UNCHANGED <<jsonInput, certificate, isDragging, fileReads, certInput>>

\* e.target.value, as the event records it
TypedValue(value) == [name |-> "", type |-> "", text |-> value]

\* mutant: typing validates the text and drops a certificate it no longer matches
textareaOnChangeValidating(value) ==
    /\ UNCHANGED <<remoteVars, landingVars>>
    /\ inputMode = "text"
    /\ value # jsonInput
    /\ jsonInput' = value
    /\ IF JSONParse(value).ok
       THEN UNCHANGED <<certificate, certInput>>
       ELSE certificate' = NoCert /\ certInput' = <<>>
    /\ alerted' = <<>>
    /\ lastEvent' = Event("textarea.onChange", 0, NoError, NoBody, TypedValue(value))
    /\ UNCHANGED <<inputMode, isDragging, fileReads>>

\* <textarea onChange>: setJsonInput(e.target.value); the event fires when the
\* value of the textarea changed
textareaOnChange(value) ==
    /\ UNCHANGED <<remoteVars, landingVars>>
    /\ inputMode = "text"
    /\ value # jsonInput
    /\ jsonInput' = value
    /\ alerted' = <<>>
    /\ lastEvent' = Event("textarea.onChange", 0, NoError, NoBody, TypedValue(value))
    /\ UNCHANGED <<certificate, inputMode, isDragging, fileReads, certInput>>

\* history: what a successful generation does to the stored certificate
\* (0: there was none, 1: it was made from the same input, 2: from another)
GenerationKind ==
    IF certificate = NoCert THEN 0
    ELSE IF certInput = jsonInput THEN 1
    ELSE 2

\* mutant: a failed parse also drops the certificate on display
generateCertificateClearing(t) ==
    /\ UNCHANGED <<remoteVars, landingVars>>
    /\ LET parsed == JSONParse(jsonInput) IN
       IF parsed.ok
       THEN /\ certificate' = MakeCert(parsed.val, t)
            /\ certInput' = jsonInput
            /\ alerted' = <<>>
            /\ lastEvent' = Event("generateCertificate",
                                  GenerationKind,
                                  NoError, NoBody, NoFile)
       ELSE /\ alerted' = <<MsgInvalidJson>>
            /\ lastEvent' = Event("generateCertificate", 0, BodySyntaxError, NoBody, NoFile)
            /\ certificate' = NoCert
            /\ certInput' = <<>>
    /\ UNCHANGED <<jsonInput, inputMode, isDragging, fileReads>>

\* generateCertificate, t being the reading of new Date()
generateCertificate(t) ==
    /\ UNCHANGED <<remoteVars, landingVars>>
    /\ LET parsed == JSONParse(jsonInput) IN
       IF parsed.ok
       THEN /\ certificate' = MakeCert(parsed.val, t)
            /\ certInput' = jsonInput
            /\ alerted' = <<>>
            /\ lastEvent' = Event("generateCertificate",
                                  GenerationKind,
                                  NoError, NoBody, NoFile)
       ELSE /\ alerted' = <<MsgInvalidJson>>
            /\ lastEvent' = Event("generateCertificate", 0, BodySyntaxError, NoBody, NoFile)
            /\ UNCHANGED <<certificate, certInput>>
    /\ UNCHANGED <<jsonInput, inputMode, isDragging, fileReads>>

\* the certificate block of the render:  {certificate && <div ...>}
CertificateShown == certificate # NoCert

\* what a drop can carry: no file, one file, or several
Drops == {<<>>} \cup {<<f>> : f \in Files} \cup {<<f, g>> : f, g \in Files}

InitLocal ==
    /\ jsonInput = <<>>
    /\ certificate = NoCert
    /\ inputMode = "text"
    /\ isDragging = FALSE
    /\ fileReads = EmptyBag
    /\ certInput = <<>>

NextLocal ==
    \/ \E m \in {"file", "text"} : setInputMode(m)
    \/ \E v \in Texts : textareaOnChange(v)
    \/ \E f \in Files \cup {NoFile} : fileInputOnChange(f)
    \/ \E f \in Files : uploadOnload(f)
    \/ \E f \in Files : uploadError(f)
    \/ handleDragOver
    \/ handleDragLeave
    \/ \E d \in Drops : handleDrop(d)
    \/ \E t \in 0..MaxClock : generateCertificate(t)

(***************************************************************************)
(*        LANDING PAGE WITH VERIFY BUTTONS  (src/unnamed/part_003)         *)
(* A handler and a timer callback each run to completion, and the state    *)
(* they set is rendered before the next event is handled.                  *)
(***************************************************************************)
heroPageVars == <<activeTab, heroVerified, verifyingHero, toolVerification,
                  heroTimers, toolTimers, heroTimersStarted, toolTimersStarted>>
modalPageVars == <<activeTabBasic, activeTabModal, showModal, modalView>>

Click(op, arg) == [op |-> op, arg |-> arg]

\* const tools = { desktop: [...], mobile: [...], enterprise: [...] }: the names
allTools ==
    [desktop |-> <<"Windows PC Wiper", "Mac Data Eraser", "Linux Drive Cleaner">>,
     mobile |-> <<"Android Wiper Pro", "iOS Data Destroyer", "Universal Mobile Wiper">>,
     enterprise |-> <<"Bulk Device Wiper", "Network Drive Cleaner", "Compliance Reporter">>]

\* the tools modelled: the first MaxTools of each category
tools ==
    [c \in DOMAIN allTools |->
        SubSeq(allTools[c], 1, IF MaxTools < Len(allTools[c]) THEN MaxTools ELSE Len(allTools[c]))]

ToolsOf(c) == {tools[c][i] : i \in 1..Len(tools[c])}
ToolNames == UNION {ToolsOf(c) : c \in DOMAIN tools}

\* the tabs drawn, with one not among the categories
TabsRenderedWithAll == DOMAIN tools \cup {"all"}

\* Object.keys(tools).map((tab) => <button onClick={() => setActiveTab(tab)}>)
TabsRendered == DOMAIN tools

\* tools[activeTab] of the render is defined
ToolListDefined == activeTab \in DOMAIN tools

\* a state of one tool is "undefined", "verifying" or "true"
\* if (toolVerification[toolName]) return;
ToolTruthy(v) == v # "undefined"

\* a hero click that starts its timer whatever the flags are
handleHeroVerifyUnguarded ==
    /\ UNCHANGED <<verifyVars, modalPageVars>>
    /\ verifyingHero' = TRUE
    /\ heroTimers' = heroTimers + 1
    /\ heroTimersStarted' = heroTimersStarted + 1
    /\ lastClick' = Click("handleHeroVerify", IF heroVerified \/ verifyingHero THEN "ignored" ELSE "started")
    /\ UNCHANGED <<activeTab, heroVerified, toolVerification, toolTimers,
                   toolTimersStarted>>

\* handleHeroVerify: a click on the hero Verify button
handleHeroVerify ==
    /\ UNCHANGED <<verifyVars, modalPageVars>>
    /\ IF heroVerified \/ verifyingHero
       THEN /\ lastClick' = Click("handleHeroVerify", "ignored")
            /\ UNCHANGED <<verifyingHero, heroTimers, heroTimersStarted>>
       ELSE /\ verifyingHero' = TRUE
            /\ heroTimers' = heroTimers + 1
            /\ heroTimersStarted' = heroTimersStarted + 1
            /\ lastClick' = Click("handleHeroVerify", "started")
    /\ UNCHANGED <<activeTab, heroVerified, toolVerification, toolTimers,
                   toolTimersStarted>>

\* the callback of the hero's setTimeout, 900 ms after the click
heroTimeout ==
    /\ UNCHANGED <<verifyVars, modalPageVars>>
    /\ heroTimers > 0
    /\ heroTimers' = heroTimers - 1
    /\ heroVerified' = TRUE
    /\ verifyingHero' = FALSE
    /\ lastClick' = Click("heroTimeout", "")
    /\ UNCHANGED <<activeTab, toolVerification, toolTimers, heroTimersStarted,
                   toolTimersStarted>>

\* a tool click that stores a fresh object instead of spreading the old one
handleToolVerifyReplacing(toolName) ==
    /\ UNCHANGED <<verifyVars, modalPageVars>>
    /\ toolName \in ToolsOf(activeTab)
    /\ IF ToolTruthy(toolVerification[toolName])
       THEN /\ lastClick' = Click("handleToolVerify.ignored", toolName)
            /\ UNCHANGED <<toolVerification, toolTimers, toolTimersStarted>>
       ELSE /\ toolVerification' =
                  [t \in ToolNames |-> IF t = toolName THEN "verifying" ELSE "undefined"]
            /\ toolTimers' = [toolTimers EXCEPT ![toolName] = @ + 1]
            /\ toolTimersStarted' = [toolTimersStarted EXCEPT ![toolName] = @ + 1]
            /\ lastClick' = Click("handleToolVerify", toolName)
    /\ UNCHANGED <<activeTab, heroVerified, verifyingHero, heroTimers,
                   heroTimersStarted>>

\* handleToolVerify(tool.name): a click on the Verify button of a tool drawn
handleToolVerify(toolName) ==
    /\ UNCHANGED <<verifyVars, modalPageVars>>
    /\ toolName \in ToolsOf(activeTab)
    /\ IF ToolTruthy(toolVerification[toolName])
       THEN /\ lastClick' = Click("handleToolVerify.ignored", toolName)
            /\ UNCHANGED <<toolVerification, toolTimers, toolTimersStarted>>
       ELSE /\ toolVerification' = [toolVerification EXCEPT ![toolName] = "verifying"]
            /\ toolTimers' = [toolTimers EXCEPT ![toolName] = @ + 1]
            /\ toolTimersStarted' = [toolTimersStarted EXCEPT ![toolName] = @ + 1]
            /\ lastClick' = Click("handleToolVerify", toolName)
    /\ UNCHANGED <<activeTab, heroVerified, verifyingHero, heroTimers,
                   heroTimersStarted>>

\* a timer callback that clears the entry of its tool
toolTimeoutClearing(toolName) ==
    /\ UNCHANGED <<verifyVars, modalPageVars>>
    /\ toolTimers[toolName] > 0
    /\ toolTimers' = [toolTimers EXCEPT ![toolName] = @ - 1]
    /\ toolVerification' = [toolVerification EXCEPT ![toolName] = "undefined"]
    /\ lastClick' = Click("toolTimeout", toolName)
    /\ UNCHANGED <<activeTab, heroVerified, verifyingHero, heroTimers,
                   heroTimersStarted, toolTimersStarted>>

\* the callback of a tool's setTimeout, 900 ms after the click
toolTimeout(toolName) ==
    /\ UNCHANGED <<verifyVars, modalPageVars>>
    /\ toolTimers[toolName] > 0
    /\ toolTimers' = [toolTimers EXCEPT ![toolName] = @ - 1]
    /\ toolVerification' = [toolVerification EXCEPT ![toolName] = "true"]
    /\ lastClick' = Click("toolTimeout", toolName)
    /\ UNCHANGED <<activeTab, heroVerified, verifyingHero, heroTimers,
                   heroTimersStarted, toolTimersStarted>>

\* a click on one of the tabs drawn
setActiveTab(tab) ==
    /\ UNCHANGED <<verifyVars, modalPageVars>>
    /\ tab \in TabsRendered
    /\ activeTab' = tab
    /\ lastClick' = Click("setActiveTab", tab)
    /\ UNCHANGED <<heroVerified, verifyingHero, toolVerification, heroTimers,
                   toolTimers, heroTimersStarted, toolTimersStarted>>

InitHeroPage ==
    /\ activeTab = "desktop"
    /\ heroVerified = FALSE
    /\ verifyingHero = FALSE
    /\ toolVerification = [t \in ToolNames |-> "undefined"]
    /\ heroTimers = 0
    /\ toolTimers = [t \in ToolNames |-> 0]
    /\ heroTimersStarted = 0
    /\ toolTimersStarted = [t \in ToolNames |-> 0]

NextLanding ==
    \/ handleHeroVerify
    \/ heroTimeout
    \/ \E t \in ToolNames : handleToolVerify(t)
    \/ \E t \in ToolNames : toolTimeout(t)
    \/ \E tab \in TabsRendered : setActiveTab(tab)

(***************************************************************************)
(*     LANDING PAGES WITHOUT AND WITH THE MODAL (src/unnamed/part_001)     *)
(***************************************************************************)
\* const tools = [ { id: "desktop", ... }, { id: "mobile", ... }, { id: "enterprise", ... } ]
toolIds == {"desktop", "mobile", "enterprise"}

\* tools.find((x) => x.id === activeTab) of the render is defined
ToolsFindDefined(tab) == \E id \in toolIds : id = tab

\* downloadLinks: the number of files of each system
downloadLinks == [windows |-> 4, linux |-> 3]

\* a click on a tab of the page without modal
setActiveTabBasic(id) ==
    /\ UNCHANGED <<verifyVars, heroPageVars>>
    /\ id \in toolIds
    /\ activeTabBasic' = id
    /\ lastClick' = Click("setActiveTabBasic", id)
    /\ UNCHANGED <<activeTabModal, showModal, modalView>>

\* a click on a tab of the page with the modal
setActiveTabModal(id) ==
    /\ UNCHANGED <<verifyVars, heroPageVars>>
    /\ id \in toolIds
    /\ activeTabModal' = id
    /\ lastClick' = Click("setActiveTabModal", id)
    /\ UNCHANGED <<activeTabBasic, showModal, modalView>>

\* openModal: the Free Download button
openModal ==
    /\ UNCHANGED <<verifyVars, heroPageVars>>
    /\ showModal' = TRUE
    /\ modalView' = "choice"
    /\ lastClick' = Click("openModal", modalView)
    /\ UNCHANGED <<activeTabBasic, activeTabModal>>

\* a close that leaves the view where it is
closeModalKeeping ==
    /\ UNCHANGED <<verifyVars, heroPageVars>>
    /\ showModal
    /\ showModal' = FALSE
    /\ lastClick' = Click("closeModal", modalView)
    /\ UNCHANGED <<activeTabBasic, activeTabModal, modalView>>

\* closeModal: the X button of every view, or a click on the overlay
closeModal ==
    /\ UNCHANGED <<verifyVars, heroPageVars>>
    /\ showModal
    /\ showModal' = FALSE
    /\ modalView' = "choice"
    /\ lastClick' = Click("closeModal", modalView)
    /\ UNCHANGED <<activeTabBasic, activeTabModal>>

\* goToApp: the Desktop App option of the choice view
goToApp ==
    /\ UNCHANGED <<verifyVars, heroPageVars>>
    /\ showModal /\ modalView = "choice"
    /\ modalView' = "app"
    /\ lastClick' = Click("goToApp", "")
    /\ UNCHANGED <<activeTabBasic, activeTabModal, showModal>>

\* goToIso: the Bootable ISO option of the choice view
goToIso ==
    /\ UNCHANGED <<verifyVars, heroPageVars>>
    /\ showModal /\ modalView = "choice"
    /\ modalView' = "iso"
    /\ lastClick' = Click("goToIso", "")
    /\ UNCHANGED <<activeTabBasic, activeTabModal, showModal>>

\* goBack: the Back to options button of the app and iso views
goBack ==
    /\ UNCHANGED <<verifyVars, heroPageVars>>
    /\ showModal /\ modalView \in {"app", "iso"}
    /\ modalView' = "choice"
    /\ lastClick' = Click("goBack", modalView)
    /\ UNCHANGED <<activeTabBasic, activeTabModal, showModal>>

\* downloadAllFiles(os): the download buttons of the app view open windows only
downloadAllFiles(os) ==
    /\ UNCHANGED <<verifyVars, heroPageVars>>
    /\ showModal /\ modalView = "app"
    /\ os \in DOMAIN downloadLinks
    /\ lastClick' = Click("downloadAllFiles", os)
    /\ UNCHANGED modalPageVars

InitModalPage ==
    /\ activeTabBasic = "desktop"
    /\ activeTabModal = "desktop"
    /\ showModal = FALSE
    /\ modalView = "choice"

NextModal ==
    \/ openModal
    \/ closeModal
    \/ goToApp
    \/ goToIso
    \/ goBack
    \/ \E os \in {"windows", "linux"} : downloadAllFiles(os)
    \/ \E id \in toolIds : setActiveTabModal(id)
    \/ \E id \in toolIds : setActiveTabBasic(id)

Init ==
    /\ InitRemote
    /\ InitLocal
    /\ alerted = <<>>
    /\ lastEvent = Event("init", 0, NoError, NoBody, NoFile)
    /\ InitHeroPage
    /\ InitModalPage
    /\ lastClick = Click("init", "")

\* the remote page alone
SpecRemote == Init /\ [][NextRemote]_vars

\* the local page alone
SpecLocal == Init /\ [][NextLocal]_vars

\* the landing page with the verify buttons alone
SpecLanding == Init /\ [][NextLanding]_vars

\* its timers run: a pending setTimeout callback is eventually called
SpecLandingFair ==
    /\ SpecLanding
    /\ WF_vars(heroTimeout)
    /\ \A t \in ToolNames : WF_vars(toolTimeout(t))

\* the landing pages of part_001 alone
SpecModal == Init /\ [][NextModal]_vars

\* the tabs of every landing page, with the modal
NextTabs ==
    \/ NextModal
    \/ \E tab \in TabsRendered : setActiveTab(tab)

SpecTabs == Init /\ [][NextTabs]_vars

Next == NextRemote \/ NextLocal \/ NextLanding \/ NextModal

Spec == Init /\ [][Next]_vars


(***************************************************************************)
(*                     PROPERTIES OF THE REMOTE PAGE                       *)
(***************************************************************************)

\* C1: in remote mode a file whose text is not valid JSON never reaches the
\* endpoint: no request carries such a text, and right after its read
\* completed the status is still idle and exactly one alert was raised.
C1_InvalidJsonIssuesNoRequest ==
    /\ \A q \in requests : JSONParse(q.body).ok
    /\ (lastEvent.op = "reader.onload" /\ ~JSONParse(lastEvent.file.text).ok)
          => (WorkflowStatus = "idle" /\ Len(alerted) = 1)

\* C2: at most one HTTP request is outstanding at any time.
C2_AtMostOneRequestOutstanding == Cardinality(requests) <= 1

\* C3: what is displayed was never written by an attempt older than the most
\* recently started one: the status and the download URL come from the latest
\* request (0: from no request).
C3_OnlyLatestAttemptDisplayed ==
    /\ statusBy \in {0, nRequests}
    /\ urlBy \in {0, nRequests}

\* C4: every click on Generate clears the stored download URL, so right
\* after any click no download link is displayed.
C4_ClickClearsResult ==
    lastEvent.op = "handleSubmit" => ~DownloadLinkShown

\* C5: right after a response with a non-success status the workflow is failed
\* and no download link is rendered.
C5_NotOkFailsWithoutLink ==
    lastEvent.op = "response.notOk"
        => (WorkflowStatus = "failed" /\ ~DownloadLinkShown)

\* C6 as stated: a success response whose body holds download_url = u, for
\* any u, leaves the workflow succeeded with the link's target equal to u.
C6_AnyUrlSucceeds ==
    (lastEvent.op = "response.json" /\ lastEvent.body.kind = "object"
        /\ lastEvent.body.hasUrl)
        => (WorkflowStatus = "succeeded" /\ downloadUrl = lastEvent.body.url)

\* C6 as amended: a success response whose body holds a non-empty
\* download_url = u leaves the workflow succeeded, the link rendered and its
\* target equal to u.
C6_NonEmptyUrlSucceeds ==
    (lastEvent.op = "response.json" /\ lastEvent.body.kind = "object"
        /\ lastEvent.body.hasUrl /\ lastEvent.body.url # "")
        => (/\ WorkflowStatus = "succeeded"
            /\ DownloadLinkShown
            /\ downloadUrl = lastEvent.body.url)

C6_Witness ==
    /\ lastEvent.op = "response.json"
    /\ lastEvent.body.hasUrl
    /\ lastEvent.body.url = "https://example/y.pdf"
    /\ downloadUrl = "https://example/y.pdf"
    /\ status = MsgSuccess

\* C7: right after a success response whose JSON body lacks the download-link
\* field the workflow is failed and that response stored no download URL; the
\* error is the invalid-response error when the body is an object.
C7_MissingFieldFails ==
    (lastEvent.op = "response.json" /\ lastEvent.body.kind \in {"object", "null"}
        /\ ~lastEvent.body.hasUrl)
        => (/\ WorkflowStatus = "failed"
            /\ urlBy # lastEvent.id
            /\ lastEvent.body.kind = "object" => lastEvent.err = InvalidResponse)

C7_Witness ==
    /\ lastEvent.op = "response.json"
    /\ lastEvent.body.kind = "object"
    /\ ~lastEvent.body.hasUrl
    /\ status = MsgError

\* C8 as stated: every click made with a file selected has issued exactly one
\* POST, or its file is still being read.
C8_EveryClickPosts == clicks = nRequests + Cardinality(reads)

\* C8 as amended: every click made with a file selected accounts for exactly
\* one of: a POST issued, a read in progress, a read that failed; no two
\* requests come from the same click, and no request comes from no click.
C8_RequestsFollowClicks ==
    /\ clicks = nRequests + Cardinality(reads) + nReadErrors
    /\ nRequests <= clicks
    /\ \A q \in requests : q.click \in 1..clicks
    /\ \A q1, q2 \in requests : q1.click = q2.click => q1 = q2
    /\ \A r1, r2 \in reads : r1.id = r2.id => r1 = r2

C8_Witness ==
    /\ clicks = 2
    /\ nRequests = 1
    /\ nReadErrors = 1
    /\ requests = {}
    /\ status = MsgError

(***************************************************************************)
(*                      PROPERTIES OF THE LOCAL PAGE                       *)
(***************************************************************************)

\* C9: a click on Generate with an input that is not valid JSON raises
\* exactly one alert and changes neither the input, nor the certificate on
\* display, nor the requests of the page.
C9_InvalidJsonAlertsOnly ==
    [][(lastEvent'.op = "generateCertificate" /\ ~JSONParse(jsonInput).ok)
        => (/\ alerted' = <<MsgInvalidJson>>
            /\ jsonInput' = jsonInput
            /\ certificate' = certificate
            /\ requests' = requests
            /\ nRequests' = nRequests)]_vars

C9_Witness ==
    /\ lastEvent.op = "generateCertificate"
    /\ alerted = <<MsgInvalidJson>>
    /\ ~JSONParse(jsonInput).ok
    /\ certificate # NoCert

\* C10: a click on Generate with the valid input the stored certificate was
\* made from stores a certificate with the same title and the same details.
C10_RepeatedClicksAgree ==
    [][(lastEvent'.op = "generateCertificate" /\ certificate # NoCert
            /\ certInput = jsonInput)
        => (/\ certificate' # NoCert
            /\ certificate'.title = certificate.title
            /\ certificate'.details = certificate.details)]_vars

C10_Witness ==
    /\ lastEvent.op = "generateCertificate"
    /\ lastEvent.id = 1
    /\ certificate # NoCert
    /\ certInput = jsonInput
    /\ certificate.timestamp = 1

\* C11: right after a click on Generate with an input that parses as JSON a
\* certificate is displayed whose title is the fixed title and whose details
\* are the parsed input, and no alert was raised.
C11_ValidJsonAlwaysSucceeds ==
    (lastEvent.op = "generateCertificate" /\ JSONParse(jsonInput).ok)
        => (/\ CertificateShown
            /\ certificate.title = "NullNova Data Wiping Certificate"
            /\ certificate.details = JSONParse(jsonInput).val
            /\ alerted = <<>>
            /\ lastEvent.err = NoError)

C11_Witness ==
    /\ lastEvent.op = "generateCertificate"
    /\ jsonInput = <<"[", "1", ",", " ", "1", "]">>
    /\ CertificateShown
    /\ certificate.details = JsonArray(<<JsonNumber(1), JsonNumber(1)>>)
    /\ alerted = <<>>

\* C12: a file whose declared type is not JSON, given by the file picker or
\* as the first file of a drop, leaves the input text unchanged, starts no
\* file read and raises the invalid-file alert.
C12_NonJsonFileRejected ==
    [][(/\ lastEvent'.op \in {"fileInput.onChange", "handleDrop"}
        /\ lastEvent'.file # NoFile
        /\ lastEvent'.file.type # "application/json")
        => (/\ jsonInput' = jsonInput
            /\ fileReads' = fileReads
            /\ alerted' = <<MsgInvalidFile>>)]_vars

C12_Witness ==
    /\ lastEvent.op = "handleDrop"
    /\ lastEvent.file.type = "text/plain"
    /\ alerted = <<MsgInvalidFile>>
    /\ jsonInput # lastEvent.file.text

\* C13: right after the read of an uploaded file completed the input text is
\* exactly the file's text and no alert was raised.
C13_FileTextLoaded ==
    lastEvent.op = "upload.onload"
        => (jsonInput = lastEvent.file.text /\ alerted = <<>>)

C13_Witness ==
    /\ lastEvent.op = "upload.onload"
    /\ lastEvent.file.name = "wipe.json"
    /\ jsonInput = <<"[", "1", ",", " ", "1", "]">>

\* C17: a drop hands its first file, and only that one, to the file handler;
\* a drop of no file changes the drag flag alone; drag-over and drag-leave
\* change the drag flag alone.
C17_DropUsesFirstFileOnly ==
    [][/\ lastEvent'.op = "handleDrop"
          => (/\ isDragging' = FALSE
              /\ jsonInput' = jsonInput
              /\ certificate' = certificate
              /\ inputMode' = inputMode
              /\ IF lastEvent'.id = 0
                 THEN fileReads' = fileReads /\ alerted' = <<>>
                 ELSE IF lastEvent'.file.type = "application/json"
                 THEN /\ fileReads' = fileReads (+) SetToBag({lastEvent'.file})
                      /\ alerted' = <<>>
                 ELSE fileReads' = fileReads /\ alerted' = <<MsgInvalidFile>>)
       /\ lastEvent'.op \in {"handleDragOver", "handleDragLeave"}
          => (/\ isDragging' = (lastEvent'.op = "handleDragOver")
              /\ jsonInput' = jsonInput
              /\ certificate' = certificate
              /\ inputMode' = inputMode
              /\ fileReads' = fileReads
              /\ alerted' = <<>>)]_vars

C17_Witness ==
    /\ lastEvent.op = "handleDrop"
    /\ lastEvent.id = 2
    /\ BagIn(lastEvent.file, fileReads)
    /\ BagCardinality(fileReads) = 1
    /\ ~isDragging

\* C18: text entry stores the value entered, as entered, and changes nothing
\* else: no alert, the certificate and the input it was made from stay.
C18_TextEntryOnlySetsInput ==
    [][lastEvent'.op = "textarea.onChange"
        => (/\ jsonInput' = lastEvent'.file.text
            /\ alerted' = <<>>
            /\ certificate' = certificate
            /\ certInput' = certInput
            /\ fileReads' = fileReads
            /\ inputMode' = inputMode
            /\ isDragging' = isDragging)]_vars

C18_Witness ==
    /\ lastEvent.op = "textarea.onChange"
    /\ ~JSONParse(jsonInput).ok
    /\ alerted = <<>>
    /\ CertificateShown
    /\ certInput # jsonInput

\* C19: the stored certificate is always the envelope of one generation: the
\* fixed title, a timestamp, and as details the parse of the input of the
\* latest successful generation, nothing else.
C19_CertificateFullyReplaced ==
    CertificateShown
        => (/\ DOMAIN certificate = {"title", "timestamp", "details"}
            /\ certificate.title = CertTitle
            /\ JSONParse(certInput).ok
            /\ certificate.details = JSONParse(certInput).val)

C19_Witness ==
    /\ lastEvent.op = "generateCertificate"
    /\ lastEvent.id = 2
    /\ CertificateShown
    /\ certInput = jsonInput

\* C14: after every failure of a step (a failed file read, a response that is
\* not ok, a body that is not JSON or lacks the url, a rejected request) the
\* error message is displayed or an alert was raised.
C14_NoFailureSwallowed ==
    (\/ lastEvent.op \in {"reader.onerror", "response.notOk", "fetch.rejected"}
     \/ (lastEvent.op = "response.json" /\ lastEvent.err # NoError))
        => (status = MsgError \/ alerted # <<>>)

\* C15: right after the request was rejected the workflow is failed, the error
\* message is displayed and an alert was raised.
C15_NetworkFailureAlerts ==
    lastEvent.op = "fetch.rejected"
        => (/\ WorkflowStatus = "failed"
            /\ status = MsgError
            /\ alerted # <<>>)

\* C16 as stated: the status message changes only in a click on the button, in
\* the read of that click completing, and in the settlement of a request.
C16_StatusChangesOnlyOnSubmission ==
    [][status' # status
        => lastEvent'.op \in {"handleSubmit", "reader.onload", "response.notOk",
                              "response.json", "fetch.rejected"}]_vars

\* C16 amended: the status message changes only in a click, in the read of a
\* click completing, in the settlement of a request, and in a file change,
\* which always resets the message and the link to empty.
C16_StatusChangesOnSubmissionOrFileChange ==
    [][/\ status' # status
          => lastEvent'.op \in {"handleSubmit", "reader.onload",
                                "response.notOk", "response.json",
                                "fetch.rejected", "handleFileChange"}
       /\ lastEvent'.op = "handleFileChange"
          => (status' = "" /\ downloadUrl' = "")]_vars

C16_Witness ==
    /\ lastEvent.op = "handleFileChange"
    /\ status = ""
    /\ WorkflowStatus = "idle"
    /\ requests # {}

\* C20: while the generating message is displayed, a step that is neither an
\* action of the user nor an answer of the endpoint leaves the message and
\* the link as they are: nothing in the page ends the wait.
C20_NoTimeout ==
    [][(/\ status = MsgGenerating
        /\ lastEvent'.op \notin {"handleFileChange", "handleSubmit",
                                 "response.ok", "response.notOk",
                                 "response.json", "fetch.rejected"})
        => (status' = MsgGenerating /\ downloadUrl' = downloadUrl)]_vars

C20_Witness ==
    /\ lastEvent.op = "reader.onerror"
    /\ status = MsgGenerating
    /\ WorkflowStatus = "submitting"
    /\ requests # {}

\* C21: two failures of different kinds (a response that is not ok, a body
\* without the link, a request that never completed) were never reported by
\* the same status message.
C21_FailureKindsDistinct ==
    \A p, q \in shownFailures : p[1] # q[1] => p[2] # q[2]

\* C22: whenever the download link is displayed the status message is the
\* success message.
C22_LinkOnlyWithSuccess ==
    DownloadLinkShown => status = MsgSuccess

\* C23: a file read that completes right after the user typed in the textarea
\* leaves the text typed in place.
C23_LateReadNeverOverwrites ==
    [][(lastEvent.op = "textarea.onChange" /\ lastEvent'.op = "upload.onload")
        => jsonInput' = jsonInput]_vars

\* C24: a click on Generate without a file selected sets the status to the
\* prompt, starts no read, issues no request and keeps the download URL.
C24_ClickWithoutFile ==
    [][(lastEvent'.op = "handleSubmit" /\ selectedFile = NoFile)
        => (/\ status' = MsgSelectFile
            /\ reads' = reads
            /\ requests' = requests
            /\ nRequests' = nRequests
            /\ clicks' = clicks
            /\ downloadUrl' = downloadUrl)]_vars

C24_Witness ==
    /\ lastEvent.op = "handleSubmit"
    /\ selectedFile = NoFile
    /\ status = MsgSelectFile
    /\ downloadUrl # ""
    /\ reads = {}
    /\ requests = {}

\* C25: a click with a file selected starts the read of that file, and the
\* completion of a read posts one request whose body is the text of the file
\* of that read, whatever file is selected by then.
C25_BodyIsFileOfClick ==
    [][/\ (lastEvent'.op = "handleSubmit" /\ selectedFile # NoFile)
          => \E r \in reads' \ reads :
                r.id = lastEvent'.id /\ r.file = selectedFile
       /\ lastEvent'.op = "reader.onload"
          => \E r \in reads \ reads' : \E q \in requests' \ requests :
                /\ requests' = requests \cup {q}
                /\ q.click = r.id
                /\ q.body = r.file.text]_vars

C25_Witness ==
    /\ lastEvent.op = "reader.onload"
    /\ selectedFile # NoFile
    /\ selectedFile # lastEvent.file
    /\ \E q \in requests :
          /\ q.id = lastEvent.id
          /\ q.body = lastEvent.file.text
          /\ q.body # selectedFile.text

(***************************************************************************)
(*                    PROPERTIES OF THE LANDING PAGES                      *)
(***************************************************************************)

\* C26: the modal view is one of choice, app and iso; while the modal is
\* closed the view is choice; and right after openModal the modal is open on
\* the choice view.
C26_ClosedModalShowsChoice ==
    /\ modalView \in {"choice", "app", "iso"}
    /\ ~showModal => modalView = "choice"
    /\ lastClick.op = "openModal" => (showModal /\ modalView = "choice")

C26_Witness ==
    /\ lastClick = Click("closeModal", "iso")
    /\ ~showModal
    /\ modalView = "choice"

\* C27: heroVerified and verifyingHero are never both true; at most one hero
\* timer is pending and at most one is ever started; a click while verifying
\* or verified starts no timer; heroVerified, once true, stays true.
C27_HeroVerifyOnce ==
    [][/\ ~(heroVerified /\ verifyingHero)
       /\ ~(heroVerified' /\ verifyingHero')
       /\ heroTimers' <= 1
       /\ heroTimersStarted' <= 1
       /\ ((heroVerified \/ verifyingHero) /\ lastClick'.op = "handleHeroVerify")
          => (heroTimers' = heroTimers /\ heroTimersStarted' = heroTimersStarted)
       /\ heroVerified => heroVerified']_vars

C27_Witness ==
    /\ lastClick = Click("handleHeroVerify", "ignored")
    /\ verifyingHero
    /\ ~heroVerified
    /\ heroTimers = 1
    /\ heroTimersStarted = 1

\* C28: the state of a tool moves only from undefined to "verifying" and from
\* "verifying" to true; at most one timer is started for a tool; a step that
\* changes the state of a tool is a click on it or its timer, and changes no
\* other tool.
C28_ToolsVerifyIndependently ==
    [][\A t \in ToolNames :
          /\ toolTimersStarted'[t] <= 1
          /\ toolTimers'[t] <= 1
          /\ toolVerification'[t] # toolVerification[t]
             => (/\ \/ toolVerification[t] = "undefined" /\ toolVerification'[t] = "verifying"
                    \/ toolVerification[t] = "verifying" /\ toolVerification'[t] = "true"
                 /\ lastClick'.arg = t
                 /\ \A u \in ToolNames \ {t} :
                       toolVerification'[u] = toolVerification[u])]_vars

C28_Witness ==
    /\ lastClick = Click("toolTimeout", "Android Wiper Pro")
    /\ toolVerification["Android Wiper Pro"] = "true"
    /\ toolVerification["Windows PC Wiper"] = "verifying"
    /\ toolVerification["Bulk Device Wiper"] = "undefined"
    /\ toolTimers["Windows PC Wiper"] = 1

\* C29: after a click on the hero Verify button the hero is eventually shown
\* verified, after a click on the Verify button of a tool that tool is
\* eventually shown verified, and what is verified stays verified.
C29_VerifyEventuallyCompletes ==
    /\ (lastClick.op = "handleHeroVerify") ~> []heroVerified
    /\ \A t \in ToolNames :
          (lastClick.arg = t /\ lastClick.op \in {"handleToolVerify", "handleToolVerify.ignored"})
             ~> [](toolVerification[t] = "true")

C29_Witness ==
    /\ heroVerified
    /\ heroTimers = 0
    /\ \A t \in ToolNames : toolVerification[t] = "true" /\ toolTimers[t] = 0

\* C30: on each of the three landing pages the active tab is one of desktop,
\* mobile and enterprise, and the lookup of its tool list is defined.
C30_ActiveTabIsACategory ==
    /\ activeTab \in {"desktop", "mobile", "enterprise"}
    /\ ToolListDefined
    /\ activeTabBasic \in {"desktop", "mobile", "enterprise"}
    /\ ToolsFindDefined(activeTabBasic)
    /\ activeTabModal \in {"desktop", "mobile", "enterprise"}
    /\ ToolsFindDefined(activeTabModal)

C30_Witness ==
    /\ lastClick.op = "setActiveTab"
    /\ activeTab = "enterprise"
    /\ activeTabBasic = "mobile"
    /\ activeTabModal = "enterprise"

====
